---- MODULE Spec2Model ----
(***************************************************************************)
(* Submit flow of the LeadCaptureForm component                            *)
(* (src/src/components/LeadCaptureForm.tsx).                               *)
(*                                                                         *)
(* The component's React state is the model's state.  Every event handler  *)
(* runs to its first await as one action; every resolution of a remote     *)
(* call runs the continuation of the handler that awaits it as one action  *)
(* (JavaScript is single threaded, so a continuation is atomic).  A        *)
(* trigger of the user interface is enabled exactly when the view that the *)
(* component renders from the current state shows it enabled.              *)
(***************************************************************************)
EXTENDS Integers, Sequences, FiniteSets, TLC

\* ------------------------------------------------------------------ bounds
MaxLeads == 2        \* longest session log explored
MaxInFlight == 2     \* most handler instances of one kind explored at once
MaxTime == 1         \* timestamps are drawn from 1..MaxTime

\* ------------------------------------------------------- values of the model
Null == "<null>"             \* JavaScript null
Undefined == "<undefined>"   \* JavaScript undefined (no message carried)

Falsy(v) == v \in {Null, Undefined, ""}

\* a || b on optional strings
OrElse(a, b) == IF Falsy(a) THEN b ELSE a

Names == {"", "Ana", "Bob"}
Emails == {"", "ana@x", "ana@x.com"}
Industries == {"", "finance"}
Times == 1..MaxTime

FieldNames == <<"name", "email", "industry">>

FieldValues(field) ==
  CASE field = "name" -> Names
    [] field = "email" -> Emails
    [] field = "industry" -> Industries

EmptyForm == [name |-> "", email |-> "", industry |-> ""]

\* messages a remote operation may carry
Messages == {"rate limited"}

\* What a remote operation does: resolves without error, resolves with an
\* error object (whose message may be missing or empty), or throws a value
\* (an object with a message, or anything else).
Outcomes ==
  {[kind |-> "ok", message |-> Undefined]}
  \cup [kind : {"error", "throw"}, message : Messages \cup {"", Undefined}]

\* ----------------------------------------------------------------- state
VARIABLES
  formData,           \* useState({name, email, industry})
  validationErrors,   \* useState<ValidationError[]>
  submitted,          \* useState(false)
  isSubmitting,       \* useState(false)
  isResendingEmail,   \* useState(false)
  leadError,          \* useState<string | null>
  emailError,         \* useState<string | null>
  leads,              \* useState<Array<lead>>, the session log
  submits,            \* handleSubmit instances suspended at an await
  resends,            \* resendEmail instances suspended at their await
  savedLeads,         \* the LeadInputs of the saveLead calls that succeeded
  emailErrorLead,     \* position in the log of the lead whose failed email
                      \* call emailError reports (0 while emailError is null)
  lastAction          \* the handler or continuation that ran last

vars == <<formData, validationErrors, submitted, isSubmitting,
          isResendingEmail, leadError, emailError, leads, submits, resends,
          savedLeads, emailErrorLead, lastAction>>

\* ------------------------------------------------------------ pure helpers
RECURSIVE SelectErrors(_, _)
\* errors.filter(error => error.field !== field)
SelectErrors(errors, field) ==
  IF errors = <<>> THEN <<>>
  ELSE IF Head(errors).field # field
       THEN <<Head(errors)>> \o SelectErrors(Tail(errors), field)
       ELSE SelectErrors(Tail(errors), field)

\* validationErrors.some(error => error.field === field)
HasFieldError(errors, field) ==
  \E i \in 1..Len(errors) : errors[i].field = field

\* The validator lives in @/lib/validation: one error per invalid field.
FieldInvalid(data, field) ==
  CASE field = "name" -> data.name = ""
    [] field = "email" -> data.email # "ana@x.com"
    [] field = "industry" -> data.industry = ""

RECURSIVE ValidateFrom(_, _)
ValidateFrom(data, i) ==
  IF i > Len(FieldNames) THEN <<>>
  ELSE (IF FieldInvalid(data, FieldNames[i])
        THEN <<[field |-> FieldNames[i], message |-> "invalid"]>>
        ELSE <<>>) \o ValidateFrom(data, i + 1)

validateLeadForm(data) == ValidateFrom(data, 1)

\* getErrorMessage(err, fallbackMessage): err is a thrown value, of which
\* only the message (Undefined when there is none) matters.
getErrorMessage(err, fallbackMessage) == OrElse(err, fallbackMessage)

LeadInput(d) == [name |-> d.name, email |-> d.email, industry |-> d.industry]

\* saveLead returning error.message without `|| 'Failed to save lead.'`
saveLead_noFallback(outcome) ==
  IF outcome.kind = "ok" THEN [success |-> TRUE]
  ELSE IF outcome.kind = "error"
  THEN [success |-> FALSE,
        error |-> outcome.message]
  ELSE [success |-> FALSE,
        error |-> getErrorMessage(outcome.message,
                                  "Unexpected error while saving lead.")]

\* saveLead: normalises what the insert did into {success, error?}
saveLead(outcome) ==
  IF outcome.kind = "ok" THEN [success |-> TRUE]
  ELSE IF outcome.kind = "error"
  THEN [success |-> FALSE,
        error |-> OrElse(outcome.message, "Failed to save lead.")]
  ELSE [success |-> FALSE,
        error |-> getErrorMessage(outcome.message,
                                  "Unexpected error while saving lead.")]

\* sendConfirmationEmail: normalises what the invoke did
sendConfirmationEmail(outcome) ==
  IF outcome.kind = "ok" THEN [success |-> TRUE]
  ELSE IF outcome.kind = "error"
  THEN [success |-> FALSE,
        error |-> OrElse(outcome.message, "Failed to send confirmation email.")]
  ELSE [success |-> FALSE,
        error |-> getErrorMessage(outcome.message,
                                  "Unexpected error while sending email.")]

\* result.error of an OperationResult (undefined when absent)
ErrorOf(result) == IF "error" \in DOMAIN result THEN result.error ELSE Undefined

\* A handler instance suspended at an await: where it waits, the LeadInput
\* its closure passed to the remote call, and the session log as it was
\* when the handler was started.
Flow(pc, data, log) == [pc |-> pc, data |-> data, leadsBefore |-> log]

NoFlow == Flow("none", EmptyForm, <<>>)
NoOutcome == [kind |-> "none", message |-> Undefined]

\* what ran last: the step, what the remote call did, the handler instance
Ran(name, outcome, flow) == [name |-> name, outcome |-> outcome, flow |-> flow]

Remove(s, i) == SubSeq(s, 1, i - 1) \o SubSeq(s, i + 1, Len(s))

\* ------------------------------------------------------- the rendered view
\* if (submitted) the success view is rendered, otherwise the form
FormView == ~submitted
SubmittedView == submitted

\* the submit button without its disabled attribute
SubmitEnabled_notDisabled == FormView

\* <Button type="submit" disabled={isSubmitting}>
SubmitEnabled == FormView /\ ~isSubmitting

\* <Input disabled={isSubmitting}>, <Select disabled={isSubmitting}>
InputsEnabled == FormView /\ ~isSubmitting

\* the Retry Email button without its disabled attribute
RetryEnabled_notDisabled == SubmittedView /\ ~Falsy(emailError)

\* {emailError && (<Alert> ... <Button disabled={isResendingEmail}>)}
RetryEnabled == SubmittedView /\ ~Falsy(emailError) /\ ~isResendingEmail

\* <Button onClick={() => setSubmitted(false)}>
SubmitAnotherEnabled == SubmittedView

\* {leadError && (<Alert variant="destructive">...)}, in the form
CriticalAlertRendered == FormView /\ ~Falsy(leadError)

\* {emailError && (<Alert variant="default">...)}, in the success view
EmailAlertRendered == SubmittedView /\ ~Falsy(emailError)

\* ------------------------------------------------------------------ Init
Init ==
  /\ formData = EmptyForm
  /\ validationErrors = <<>>
  /\ submitted = FALSE
  /\ isSubmitting = FALSE
  /\ isResendingEmail = FALSE
  /\ leadError = Null
  /\ emailError = Null
  /\ leads = <<>>
  /\ submits = <<>>
  /\ resends = <<>>
  /\ savedLeads = <<>>
  /\ emailErrorLead = 0
  /\ lastAction = Ran("init", NoOutcome, NoFlow)

\* handleInputChange dropping every validation error on an edit
handleInputChange_clearsAll ==
  /\ InputsEnabled
  /\ \E i \in 1..Len(FieldNames) : \E value \in FieldValues(FieldNames[i]) :
       LET field == FieldNames[i] IN
       /\ formData' = [formData EXCEPT ![field] = value]
       /\ validationErrors' =
            IF HasFieldError(validationErrors, field)
            THEN <<>>
            ELSE validationErrors
       /\ lastAction' = Ran("handleInputChange:" \o field, NoOutcome, NoFlow)
  /\ UNCHANGED <<submitted, isSubmitting, isResendingEmail, leadError,
                 emailError, leads, submits, resends>>
  /\ UNCHANGED savedLeads
  /\ UNCHANGED emailErrorLead

\* --------------------------------------------------------------- actions
\* handleInputChange(field, value)
handleInputChange ==
  /\ InputsEnabled
  /\ \E i \in 1..Len(FieldNames) : \E value \in FieldValues(FieldNames[i]) :
       LET field == FieldNames[i] IN
       /\ formData' = [formData EXCEPT ![field] = value]
       /\ validationErrors' =
            IF HasFieldError(validationErrors, field)
            THEN SelectErrors(validationErrors, field)
            ELSE validationErrors
       /\ lastAction' = Ran("handleInputChange:" \o field, NoOutcome, NoFlow)
  /\ UNCHANGED <<submitted, isSubmitting, isResendingEmail, leadError,
                 emailError, leads, submits, resends>>
  /\ UNCHANGED savedLeads
  /\ UNCHANGED emailErrorLead

\* handleSubmit without `if (errors.length > 0) return;`
handleSubmit_noEarlyReturn ==
  /\ SubmitEnabled
  /\ Len(leads) + Len(submits) < MaxLeads
  /\ Len(submits) < MaxInFlight
  /\ LET errors == validateLeadForm(formData)
         flow == Flow("saveLead", LeadInput(formData), leads)
     IN
     /\ leadError' = Null
     /\ emailError' = Null
     /\ validationErrors' = errors
     /\ isSubmitting' = TRUE
     /\ submits' = Append(submits, flow)
     /\ lastAction' = Ran(IF Len(errors) > 0 THEN "handleSubmit:invalid"
                          ELSE "handleSubmit:valid", NoOutcome, flow)
  /\ UNCHANGED <<formData, submitted, isResendingEmail, leads, resends>>
  /\ UNCHANGED savedLeads
  /\ emailErrorLead' = 0

\* handleSubmit without setLeadError(null)
handleSubmit_keepsLeadError ==
  /\ SubmitEnabled
  /\ Len(leads) + Len(submits) < MaxLeads
  /\ Len(submits) < MaxInFlight
  /\ LET errors == validateLeadForm(formData)
         flow == Flow("saveLead", LeadInput(formData), leads)
     IN
     /\ UNCHANGED leadError
     /\ emailError' = Null
     /\ validationErrors' = errors
     /\ IF Len(errors) > 0
        THEN /\ lastAction' = Ran("handleSubmit:invalid", NoOutcome, NoFlow)
             /\ UNCHANGED <<isSubmitting, submits>>
        ELSE /\ isSubmitting' = TRUE
             /\ submits' = Append(submits, flow)
             /\ lastAction' = Ran("handleSubmit:valid", NoOutcome, flow)
  /\ UNCHANGED <<formData, submitted, isResendingEmail, leads, resends>>
  /\ UNCHANGED savedLeads
  /\ emailErrorLead' = 0

\* handleSubmit, from the submit event to the first await (or to the early
\* return on validation errors)
handleSubmit ==
  /\ SubmitEnabled
  /\ Len(leads) + Len(submits) < MaxLeads
  /\ Len(submits) < MaxInFlight
  /\ LET errors == validateLeadForm(formData)
         flow == Flow("saveLead", LeadInput(formData), leads)
     IN
     /\ leadError' = Null
     /\ emailError' = Null
     /\ validationErrors' = errors
     /\ IF Len(errors) > 0
        THEN /\ lastAction' = Ran("handleSubmit:invalid", NoOutcome, NoFlow)
             /\ UNCHANGED <<isSubmitting, submits>>
        ELSE /\ isSubmitting' = TRUE
             /\ submits' = Append(submits, flow)
             /\ lastAction' = Ran("handleSubmit:valid", NoOutcome, flow)
  /\ UNCHANGED <<formData, submitted, isResendingEmail, leads, resends>>
  /\ UNCHANGED savedLeads
  /\ emailErrorLead' = 0

\* the continuation without `return;` after setLeadError
saveLeadSettles_noReturn ==
  \E i \in 1..Len(submits) : \E outcome \in Outcomes :
    LET flow == submits[i]
        saveResult == saveLead(outcome)
    IN
    /\ flow.pc = "saveLead"
    /\ leadError' =
         IF ~saveResult.success
         THEN OrElse(ErrorOf(saveResult),
                     "Failed to save your information. Please try again.")
         ELSE leadError
    /\ submits' = [submits EXCEPT ![i].pc = "sendConfirmationEmail"]
    /\ lastAction' = Ran(IF saveResult.success THEN "saveLead:ok"
                         ELSE "saveLead:failed", outcome, flow)
    /\ UNCHANGED <<formData, validationErrors, submitted, isSubmitting,
                   isResendingEmail, emailError, leads, resends>>
    /\ savedLeads' = IF saveResult.success
                      THEN Append(savedLeads, flow.data) ELSE savedLeads
    /\ UNCHANGED emailErrorLead

\* the continuation without `finally { setIsSubmitting(false) }` on return
saveLeadSettles_noFinally ==
  \E i \in 1..Len(submits) : \E outcome \in Outcomes :
    LET flow == submits[i]
        saveResult == saveLead(outcome)
    IN
    /\ flow.pc = "saveLead"
    /\ IF ~saveResult.success
       THEN \* setLeadError(...); return; finally setIsSubmitting(false)
            /\ leadError' = OrElse(ErrorOf(saveResult),
                 "Failed to save your information. Please try again.")
            /\ UNCHANGED isSubmitting
            /\ submits' = Remove(submits, i)
            /\ lastAction' = Ran("saveLead:failed", outcome, flow)
       ELSE \* goes on to `await sendConfirmationEmail(formData)`
            /\ submits' = [submits EXCEPT ![i].pc = "sendConfirmationEmail"]
            /\ lastAction' = Ran("saveLead:ok", outcome, flow)
            /\ UNCHANGED <<leadError, isSubmitting>>
    /\ UNCHANGED <<formData, validationErrors, submitted, isResendingEmail,
                   emailError, leads, resends>>
    /\ savedLeads' = IF saveResult.success
                      THEN Append(savedLeads, flow.data) ELSE savedLeads
    /\ UNCHANGED emailErrorLead

\* the continuation resetting the form when the save failed
saveLeadSettles_clearsForm ==
  \E i \in 1..Len(submits) : \E outcome \in Outcomes :
    LET flow == submits[i]
        saveResult == saveLead(outcome)
    IN
    /\ flow.pc = "saveLead"
    /\ IF ~saveResult.success
       THEN \* setLeadError(...); return; finally setIsSubmitting(false)
            /\ leadError' = OrElse(ErrorOf(saveResult),
                 "Failed to save your information. Please try again.")
            /\ isSubmitting' = FALSE
            /\ formData' = EmptyForm
            /\ submits' = Remove(submits, i)
            /\ lastAction' = Ran("saveLead:failed", outcome, flow)
       ELSE \* goes on to `await sendConfirmationEmail(formData)`
            /\ submits' = [submits EXCEPT ![i].pc = "sendConfirmationEmail"]
            /\ lastAction' = Ran("saveLead:ok", outcome, flow)
            /\ UNCHANGED <<leadError, isSubmitting, formData>>
    /\ UNCHANGED <<validationErrors, submitted, isResendingEmail,
                   emailError, leads, resends>>
    /\ savedLeads' = IF saveResult.success
                      THEN Append(savedLeads, flow.data) ELSE savedLeads
    /\ UNCHANGED emailErrorLead

\* handleSubmit resumes after `await saveLead(formData)`
saveLeadSettles ==
  \E i \in 1..Len(submits) : \E outcome \in Outcomes :
    LET flow == submits[i]
        saveResult == saveLead(outcome)
    IN
    /\ flow.pc = "saveLead"
    /\ IF ~saveResult.success
       THEN \* setLeadError(...); return; finally setIsSubmitting(false)
            /\ leadError' = OrElse(ErrorOf(saveResult),
                 "Failed to save your information. Please try again.")
            /\ isSubmitting' = FALSE
            /\ submits' = Remove(submits, i)
            /\ lastAction' = Ran("saveLead:failed", outcome, flow)
       ELSE \* goes on to `await sendConfirmationEmail(formData)`
            /\ submits' = [submits EXCEPT ![i].pc = "sendConfirmationEmail"]
            /\ lastAction' = Ran("saveLead:ok", outcome, flow)
            /\ UNCHANGED <<leadError, isSubmitting>>
    /\ UNCHANGED <<formData, validationErrors, submitted, isResendingEmail,
                   emailError, leads, resends>>
    /\ savedLeads' = IF saveResult.success
                      THEN Append(savedLeads, flow.data) ELSE savedLeads
    /\ UNCHANGED emailErrorLead

\* the continuation treating an email failure like a save failure: the
\* message goes to leadError and the handler returns
sendConfirmationEmailSettles_failureIsCritical ==
  \E i \in 1..Len(submits) : \E outcome \in Outcomes : \E now \in Times :
    LET flow == submits[i]
        emailResult == sendConfirmationEmail(outcome)
        lead == [name |-> flow.data.name, email |-> flow.data.email,
                 industry |-> flow.data.industry, submitted_at |-> now]
    IN
    /\ flow.pc = "sendConfirmationEmail"
    /\ IF ~emailResult.success
       THEN /\ leadError' = OrElse(ErrorOf(emailResult),
                   "We could not send a confirmation email right now.")
            /\ UNCHANGED <<leads, submitted, formData>>
       ELSE /\ leads' = Append(leads, lead)
            /\ submitted' = TRUE
            /\ formData' = EmptyForm
            /\ UNCHANGED leadError
    /\ isSubmitting' = FALSE
    /\ submits' = Remove(submits, i)
    /\ lastAction' = Ran(IF emailResult.success THEN "submit:emailOk"
                         ELSE "submit:emailFailed", outcome, flow)
    /\ UNCHANGED <<validationErrors, isResendingEmail, emailError, resends>>
    /\ UNCHANGED savedLeads
    /\ UNCHANGED emailErrorLead

\* the continuation with setLeads([lead]) instead of the functional update
sendConfirmationEmailSettles_replacesLog ==
  \E i \in 1..Len(submits) : \E outcome \in Outcomes : \E now \in Times :
    LET flow == submits[i]
        emailResult == sendConfirmationEmail(outcome)
        lead == [name |-> flow.data.name, email |-> flow.data.email,
                 industry |-> flow.data.industry, submitted_at |-> now]
    IN
    /\ flow.pc = "sendConfirmationEmail"
    /\ emailError' =
         IF ~emailResult.success
         THEN OrElse(ErrorOf(emailResult),
                     "We could not send a confirmation email right now.")
         ELSE emailError
    /\ leads' = <<lead>>
    /\ submitted' = TRUE
    /\ formData' = EmptyForm
    /\ isSubmitting' = FALSE
    /\ submits' = Remove(submits, i)
    /\ lastAction' = Ran(IF emailResult.success THEN "submit:emailOk"
                         ELSE "submit:emailFailed", outcome, flow)
    /\ UNCHANGED <<validationErrors, isResendingEmail, leadError, resends>>
    /\ UNCHANGED savedLeads
    /\ emailErrorLead' = IF ~emailResult.success THEN Len(leads) + 1
                         ELSE emailErrorLead

\* the continuation without setFormData({name: '', ...})
sendConfirmationEmailSettles_keepsForm ==
  \E i \in 1..Len(submits) : \E outcome \in Outcomes : \E now \in Times :
    LET flow == submits[i]
        emailResult == sendConfirmationEmail(outcome)
        lead == [name |-> flow.data.name, email |-> flow.data.email,
                 industry |-> flow.data.industry, submitted_at |-> now]
    IN
    /\ flow.pc = "sendConfirmationEmail"
    /\ emailError' =
         IF ~emailResult.success
         THEN OrElse(ErrorOf(emailResult),
                     "We could not send a confirmation email right now.")
         ELSE emailError
    /\ leads' = Append(leads, lead)
    /\ submitted' = TRUE
    /\ UNCHANGED formData
    /\ isSubmitting' = FALSE
    /\ submits' = Remove(submits, i)
    /\ lastAction' = Ran(IF emailResult.success THEN "submit:emailOk"
                         ELSE "submit:emailFailed", outcome, flow)
    /\ UNCHANGED <<validationErrors, isResendingEmail, leadError, resends>>
    /\ UNCHANGED savedLeads
    /\ emailErrorLead' = IF ~emailResult.success THEN Len(leads) + 1
                         ELSE emailErrorLead

\* the continuation without setLeads
sendConfirmationEmailSettles_noAppend ==
  \E i \in 1..Len(submits) : \E outcome \in Outcomes : \E now \in Times :
    LET flow == submits[i]
        emailResult == sendConfirmationEmail(outcome)
        lead == [name |-> flow.data.name, email |-> flow.data.email,
                 industry |-> flow.data.industry, submitted_at |-> now]
    IN
    /\ flow.pc = "sendConfirmationEmail"
    /\ emailError' =
         IF ~emailResult.success
         THEN OrElse(ErrorOf(emailResult),
                     "We could not send a confirmation email right now.")
         ELSE emailError
    /\ UNCHANGED leads
    /\ submitted' = TRUE
    /\ formData' = EmptyForm
    /\ isSubmitting' = FALSE
    /\ submits' = Remove(submits, i)
    /\ lastAction' = Ran(IF emailResult.success THEN "submit:emailOk"
                         ELSE "submit:emailFailed", outcome, flow)
    /\ UNCHANGED <<validationErrors, isResendingEmail, leadError, resends>>
    /\ UNCHANGED savedLeads
    /\ emailErrorLead' = IF ~emailResult.success THEN Len(leads) + 1
                         ELSE emailErrorLead

\* handleSubmit resumes after `await sendConfirmationEmail(formData)` and
\* runs to its end
sendConfirmationEmailSettles ==
  \E i \in 1..Len(submits) : \E outcome \in Outcomes : \E now \in Times :
    LET flow == submits[i]
        emailResult == sendConfirmationEmail(outcome)
        lead == [name |-> flow.data.name, email |-> flow.data.email,
                 industry |-> flow.data.industry, submitted_at |-> now]
    IN
    /\ flow.pc = "sendConfirmationEmail"
    /\ emailError' =
         IF ~emailResult.success
         THEN OrElse(ErrorOf(emailResult),
                     "We could not send a confirmation email right now.")
         ELSE emailError
    /\ leads' = Append(leads, lead)
    /\ submitted' = TRUE
    /\ formData' = EmptyForm
    /\ isSubmitting' = FALSE
    /\ submits' = Remove(submits, i)
    /\ lastAction' = Ran(IF emailResult.success THEN "submit:emailOk"
                         ELSE "submit:emailFailed", outcome, flow)
    /\ UNCHANGED <<validationErrors, isResendingEmail, leadError, resends>>
    /\ UNCHANGED savedLeads
    /\ emailErrorLead' = IF ~emailResult.success THEN Len(leads) + 1
                         ELSE emailErrorLead

\* resendEmail reading leads[0] instead of leads[leads.length - 1]
resendEmail_firstLead ==
  /\ RetryEnabled
  /\ Len(resends) < MaxInFlight
  /\ IF Len(leads) = 0
     THEN /\ lastAction' = Ran("resendEmail:empty", NoOutcome, NoFlow)
          /\ UNCHANGED <<isResendingEmail, emailError, resends>>
     ELSE LET lastLead == leads[1]
              flow == Flow("resendEmail", LeadInput(lastLead), leads)
          IN
          /\ isResendingEmail' = TRUE
          /\ emailError' = Null
          /\ resends' = Append(resends, flow)
          /\ lastAction' = Ran("resendEmail", NoOutcome, flow)
  /\ UNCHANGED <<formData, validationErrors, submitted, isSubmitting,
                 leadError, leads, submits>>
  /\ UNCHANGED savedLeads
  /\ emailErrorLead' = IF Len(leads) = 0 THEN emailErrorLead ELSE 0

\* resendEmail, from the click on Retry Email to its await
resendEmail ==
  /\ RetryEnabled
  /\ Len(resends) < MaxInFlight
  /\ IF Len(leads) = 0
     THEN /\ lastAction' = Ran("resendEmail:empty", NoOutcome, NoFlow)
          /\ UNCHANGED <<isResendingEmail, emailError, resends>>
     ELSE LET lastLead == leads[Len(leads)]
              flow == Flow("resendEmail", LeadInput(lastLead), leads)
          IN
          /\ isResendingEmail' = TRUE
          /\ emailError' = Null
          /\ resends' = Append(resends, flow)
          /\ lastAction' = Ran("resendEmail", NoOutcome, flow)
  /\ UNCHANGED <<formData, validationErrors, submitted, isSubmitting,
                 leadError, leads, submits>>
  /\ UNCHANGED savedLeads
  /\ emailErrorLead' = IF Len(leads) = 0 THEN emailErrorLead ELSE 0

\* the continuation reporting a failed resend on the critical channel
resendEmailSettles_wrongChannel ==
  \E i \in 1..Len(resends) : \E outcome \in Outcomes :
    LET flow == resends[i]
        result == sendConfirmationEmail(outcome)
    IN
    /\ leadError' =
         IF ~result.success
         THEN OrElse(ErrorOf(result),
                     "Still unable to send the confirmation email.")
         ELSE leadError
    /\ isResendingEmail' = FALSE
    /\ resends' = Remove(resends, i)
    /\ lastAction' = Ran(IF result.success THEN "resend:ok"
                         ELSE "resend:failed", outcome, flow)
    /\ UNCHANGED <<formData, validationErrors, submitted, isSubmitting,
                   emailError, leads, submits>>
    /\ UNCHANGED savedLeads
    /\ UNCHANGED emailErrorLead

\* the continuation invoking the function again when the resend failed
resendEmailSettles_autoRetry ==
  \E i \in 1..Len(resends) : \E outcome \in Outcomes :
    LET flow == resends[i]
        result == sendConfirmationEmail(outcome)
    IN
    /\ emailError' =
         IF ~result.success
         THEN OrElse(ErrorOf(result),
                     "Still unable to send the confirmation email.")
         ELSE emailError
    /\ isResendingEmail' = ~result.success
    /\ resends' = IF result.success THEN Remove(resends, i) ELSE resends
    /\ lastAction' = Ran(IF result.success THEN "resend:ok"
                         ELSE "resend:failed", outcome, flow)
    /\ UNCHANGED <<formData, validationErrors, submitted, isSubmitting,
                   leadError, leads, submits>>
    /\ UNCHANGED savedLeads
    /\ emailErrorLead' = IF ~result.success THEN Len(flow.leadsBefore)
                         ELSE emailErrorLead

\* resendEmail resumes after `await sendConfirmationEmail(...)`
resendEmailSettles ==
  \E i \in 1..Len(resends) : \E outcome \in Outcomes :
    LET flow == resends[i]
        result == sendConfirmationEmail(outcome)
    IN
    /\ emailError' =
         IF ~result.success
         THEN OrElse(ErrorOf(result),
                     "Still unable to send the confirmation email.")
         ELSE emailError
    /\ isResendingEmail' = FALSE
    /\ resends' = Remove(resends, i)
    /\ lastAction' = Ran(IF result.success THEN "resend:ok"
                         ELSE "resend:failed", outcome, flow)
    /\ UNCHANGED <<formData, validationErrors, submitted, isSubmitting,
                   leadError, leads, submits>>
    /\ UNCHANGED savedLeads
    /\ emailErrorLead' = IF ~result.success THEN Len(flow.leadsBefore)
                         ELSE emailErrorLead

\* onClick={() => setSubmitted(false)} of "Submit Another Lead"
submitAnother ==
  /\ SubmitAnotherEnabled
  /\ submitted' = FALSE
  /\ lastAction' = Ran("submitAnother", NoOutcome, NoFlow)
  /\ UNCHANGED <<formData, validationErrors, isSubmitting, isResendingEmail,
                 leadError, emailError, leads, submits, resends>>
  /\ UNCHANGED savedLeads
  /\ UNCHANGED emailErrorLead

Next ==
  \/ handleInputChange
  \/ handleSubmit
  \/ saveLeadSettles
  \/ sendConfirmationEmailSettles
  \/ resendEmail
  \/ resendEmailSettles
  \/ submitAnother

Spec == Init /\ [][Next]_vars

\* Every remote call eventually resolves: a handler suspended at an await
\* is eventually resumed.
FairSpec ==
  /\ Spec
  /\ WF_vars(saveLeadSettles)
  /\ WF_vars(sendConfirmationEmailSettles)
  /\ WF_vars(resendEmailSettles)
\* ------------------------------------------------------------ properties
\* the step that ran last, and the handler instance it belongs to
Last(name) == lastAction.name = name
LastFlow == lastAction.flow
LastOutcome == lastAction.outcome

\* log is `before` with exactly one entry carrying `data` appended
GainedOne(log, before, data) ==
  /\ Len(log) = Len(before) + 1
  /\ SubSeq(log, 1, Len(before)) = before
  /\ LeadInput(log[Len(log)]) = data

\* the message the user is shown for a failed remote call: the one the
\* call carried when it carried one, some non-empty text otherwise
ShowsMessageOf(channel, outcome) ==
  IF outcome.message \in Messages THEN channel = outcome.message
  ELSE ~Falsy(channel)

\* C1: when saveLead reports failure for a submit of valid input, that
\* submit never invokes sendConfirmationEmail (the handler is gone, no
\* handler instance waits for an email call), the session log is what it
\* was when the submit started, leadError holds a message, submitted is
\* false and isSubmitting is false again.
C1_SaveFailureHalts ==
  Last("saveLead:failed") =>
    /\ submits = <<>>
    /\ leads = LastFlow.leadsBefore
    /\ ~Falsy(leadError)
    /\ ~submitted
    /\ ~isSubmitting

C1_Witness ==
  /\ Last("saveLead:failed")
  /\ Len(leads) = 1
  /\ leadError = "rate limited"

\* C2: when saveLead succeeds and sendConfirmationEmail fails, the session
\* log has gained exactly one entry with the submitted name, email and
\* industry, leadError is null, emailError holds the notifier's message and
\* the submitted view is shown.
C2_EmailFailureStillRecords ==
  Last("submit:emailFailed") =>
    /\ GainedOne(leads, LastFlow.leadsBefore, LastFlow.data)
    /\ leadError = Null
    /\ ShowsMessageOf(emailError, LastOutcome)
    /\ submitted

C2_Witness ==
  /\ Last("submit:emailFailed")
  /\ LastFlow.data = [name |-> "Ana", email |-> "ana@x.com", industry |-> "finance"]
  /\ LastOutcome = [kind |-> "error", message |-> "rate limited"]
  /\ Len(leads) = 1
  /\ emailError = "rate limited"

\* C3 (as claimed): when saveLead and sendConfirmationEmail both succeed,
\* at the end of the submit flow the session log has gained exactly one
\* entry and neither leadError nor emailError is set.
C3_SuccessLeavesNoError ==
  Last("submit:emailOk") =>
    /\ GainedOne(leads, LastFlow.leadsBefore, LastFlow.data)
    /\ leadError = Null
    /\ emailError = Null

\* C4: a submit whose input fails validation exposes the validator's
\* errors, one for each invalid field, starts no remote call, leaves
\* isSubmitting false and leaves the session log and submitted unchanged.
C4_InvalidSubmitCallsNothing ==
  [][lastAction'.name = "handleSubmit:invalid" =>
       /\ validationErrors' = validateLeadForm(formData)
       /\ Len(validationErrors') > 0
       /\ \A i \in 1..Len(FieldNames) :
            FieldInvalid(formData, FieldNames[i])
              <=> HasFieldError(validationErrors', FieldNames[i])
       /\ submits' = submits
       /\ resends' = resends
       /\ ~isSubmitting'
       /\ leads' = leads
       /\ submitted' = submitted]_vars

C4_Witness ==
  /\ Last("handleSubmit:invalid")
  /\ Len(validationErrors) = 1
  /\ validationErrors[1].field = "email"
  /\ Len(leads) = 1

\* C5 (as claimed): when a resend completes successfully emailError is
\* null, and when it completes with failure emailError holds that
\* failure's message.
C5_ResendSettlesChannel ==
  /\ Last("resend:ok") => emailError = Null
  /\ Last("resend:failed") =>
       /\ ~Falsy(emailError)
       /\ ShowsMessageOf(emailError, LastOutcome)

\* C6: no step of the resend action (the click, the completion with either
\* outcome) changes the session log, leadError, submitted, isSubmitting or
\* formData.
C6_ResendFrame ==
  [][lastAction'.name \in {"resendEmail", "resendEmail:empty",
                           "resend:ok", "resend:failed"} =>
       UNCHANGED <<leads, leadError, submitted, isSubmitting, formData>>]_vars

C6_Witness ==
  /\ Last("resend:failed")
  /\ ~Falsy(emailError)
  /\ ~isResendingEmail

\* C7: at most one resend is in flight, and while one is in flight the
\* Retry Email button is hidden or disabled.
C7_OneResendInFlight ==
  /\ Len(resends) <= 1
  /\ resends # <<>> => ~RetryEnabled

C7_Witness ==
  /\ Len(resends) = 1
  /\ submitted
  /\ ~Falsy(emailError)

\* C8: at most one submit flow is in flight, and while one is in flight
\* isSubmitting is true and the submit button and the inputs are disabled.
C8_OneSubmitInFlight ==
  /\ Len(submits) <= 1
  /\ submits # <<>> => isSubmitting /\ ~SubmitEnabled /\ ~InputsEnabled

C8_Witness ==
  /\ Len(submits) = 1
  /\ submits[1].pc = "sendConfirmationEmail"
  /\ isSubmitting

\* C9 (as claimed): at most one remote call is outstanding, whether from
\* the submit flow or from a resend.
C9_OneRemoteCall == Len(submits) + Len(resends) <= 1

\* C10 (as claimed): while a resend is in flight the submitted view is
\* shown: isResendingEmail implies submitted.
C10_ResendingWithinSubmitted == isResendingEmail => submitted
\* C11: every entry of the session log corresponds to a distinct saveLead
\* call that returned success for the same name, email and industry (the
\* i-th entry to the i-th successful call), so the log is never longer than
\* the list of successful persistence calls, whatever the email calls did.
C11_LogWithinSaved ==
  /\ Len(leads) <= Len(savedLeads)
  /\ \A i \in 1..Len(leads) : LeadInput(leads[i]) = savedLeads[i]

C11_Witness ==
  /\ Last("submit:emailFailed")
  /\ Len(leads) = 2
  /\ leads[1].name # leads[2].name
  /\ savedLeads = <<LeadInput(leads[1]), LeadInput(leads[2])>>

\* C12 (as claimed): no error is dropped from the view: whenever leadError
\* is non-null the critical alert is rendered, and whenever emailError is
\* non-null the email-pending alert is rendered.
C12_ErrorsAlwaysRendered ==
  /\ leadError # Null => CriticalAlertRendered
  /\ emailError # Null => EmailAlertRendered

\* C13: editing a field removes exactly the validation errors of that
\* field, keeps every other error in place and leaves the error channels,
\* the session log and the display state unchanged.
C13_EditClearsOwnErrorOnly ==
  [][\A i \in 1..Len(FieldNames) :
       lastAction'.name = "handleInputChange:" \o FieldNames[i] =>
         /\ validationErrors' =
              SelectSeq(validationErrors, LAMBDA e : e.field # FieldNames[i])
         /\ UNCHANGED <<leadError, emailError, leads, submitted,
                        isSubmitting, isResendingEmail>>]_vars

C13_Witness ==
  /\ Last("handleInputChange:name")
  /\ formData.name = "Ana"
  /\ validationErrors = <<[field |-> "email", message |-> "invalid"],
                          [field |-> "industry", message |-> "invalid"]>>

\* remote calls that are outstanding
OutstandingInserts ==
  Cardinality({i \in 1..Len(submits) : submits[i].pc = "saveLead"})
OutstandingInvokes ==
  Cardinality({i \in 1..Len(submits) : submits[i].pc = "sendConfirmationEmail"})
  + Len(resends)

\* C14: remote calls are issued by user actions only, never by a retry:
\* a valid submit issues one insert; the insert's success issues the one
\* invoke of that submit and its failure issues nothing; a Retry click
\* issues one invoke; the end of an invoke, failed or not, issues nothing;
\* no other step issues a call.
C14_NoAutomaticRetry ==
  [][LET n == lastAction'.name
         inserts == OutstandingInserts' - OutstandingInserts
         invokes == OutstandingInvokes' - OutstandingInvokes
     IN
     CASE n = "handleSubmit:valid" -> inserts = 1 /\ invokes = 0
       [] n = "saveLead:ok" -> inserts = -1 /\ invokes = 1
       [] n = "saveLead:failed" -> inserts = -1 /\ invokes = 0
       [] n \in {"submit:emailOk", "submit:emailFailed"} ->
            inserts = 0 /\ invokes = -1
       [] n = "resendEmail" -> inserts = 0 /\ invokes = 1
       [] n \in {"resend:ok", "resend:failed"} -> inserts = 0 /\ invokes = -1
       [] OTHER -> inserts = 0 /\ invokes = 0]_vars

C14_Witness ==
  /\ Last("resend:failed")
  /\ OutstandingInserts = 0
  /\ OutstandingInvokes = 0
  /\ emailError = "rate limited"

\* C15: the call a Retry click issues carries the name, email and industry
\* of the last entry of the session log at the click; a click with an empty
\* log issues no call and changes no state.
C15_ResendTargetsLastLead ==
  [][/\ lastAction'.name = "resendEmail" =>
          /\ Len(leads) > 0
          /\ Len(resends') = Len(resends) + 1
          /\ resends'[Len(resends')].data = LeadInput(leads[Len(leads)])
     /\ lastAction'.name = "resendEmail:empty" =>
          UNCHANGED <<formData, validationErrors, submitted, isSubmitting,
                      isResendingEmail, leadError, emailError, leads,
                      submits, resends, savedLeads, emailErrorLead>>]_vars

C15_Witness ==
  /\ Last("resendEmail")
  /\ Len(leads) = 2
  /\ leads[1].name = "Ana"
  /\ leads[2].name = "Bob"
  /\ resends[1].data.name = "Bob"

\* C16: if every remote call eventually resolves, a submit flow in flight
\* eventually ends with isSubmitting false, either in the submitted view or
\* in the form view with leadError set, and a resend in flight eventually
\* resets isResendingEmail.
C16_FlowsTerminate ==
  /\ isSubmitting ~>
       /\ ~isSubmitting
       /\ \/ submitted /\ (Last("submit:emailOk") \/ Last("submit:emailFailed"))
          \/ ~submitted /\ ~Falsy(leadError) /\ Last("saveLead:failed")
  /\ isResendingEmail ~> ~isResendingEmail

C16_Witness ==
  /\ Last("saveLead:failed")
  /\ ~isSubmitting
  /\ ~submitted
  /\ leadError = "Failed to save lead."
  /\ ~isResendingEmail

\* C17: the session log is append-only: every step leaves it unchanged or
\* appends exactly one entry at its end.
C17_LogAppendOnly ==
  [][\/ leads' = leads
     \/ /\ Len(leads') = Len(leads) + 1
        /\ SubSeq(leads', 1, Len(leads)) = leads]_vars

C17_Witness ==
  /\ Len(leads) = 2
  /\ Last("submit:emailOk")
  /\ leads[1].name = "Bob"
  /\ leads[2].name = "Ana"

\* C18: in the submitted view the form is empty, and Submit Another Lead
\* sets submitted to false and changes nothing else.
C18_SubmittedFormEmpty ==
  /\ [](submitted => formData = EmptyForm)
  /\ [][lastAction'.name = "submitAnother" =>
          /\ ~submitted'
          /\ UNCHANGED <<leads, emailError, leadError, isResendingEmail,
                         formData, validationErrors, isSubmitting>>]_vars

C18_Witness ==
  /\ Last("submitAnother")
  /\ ~submitted
  /\ formData = EmptyForm
  /\ ~Falsy(emailError)
  /\ Len(leads) = 1

\* the fixed messages the two wrappers fall back to
SaveFallbacks == {"Failed to save lead.", "Unexpected error while saving lead."}
EmailFallbacks == {"Failed to send confirmation email.",
                   "Unexpected error while sending email."}

\* result is a normalised OperationResult for what the remote call did
Normalised(result, outcome, fallbacks) ==
  /\ result.success \in BOOLEAN
  /\ result.success <=> outcome.kind = "ok"
  /\ result.success => "error" \notin DOMAIN result
  /\ ~result.success =>
       /\ "error" \in DOMAIN result
       /\ ~Falsy(result.error)
       /\ IF outcome.message \in Messages
          THEN result.error = outcome.message
          ELSE result.error \in fallbacks

C20_SubmittedHasLead == submitted => Len(leads) >= 1

C20_Witness ==
  /\ submitted
  /\ Len(leads) = 2
  /\ leads[Len(leads)].name = "Bob"
  /\ isResendingEmail
\* C21 (as claimed): in the submitted view a non-null emailError reports a
\* failed email call for the last entry of the session log, the lead Retry
\* Email resends to; a resend started for an earlier lead never sets it.
C21_EmailErrorAboutLastLead ==
  (submitted /\ emailError # Null) => emailErrorLead = Len(leads)

\* C22: the critical error never coexists with the submitted view:
\* leadError non-null implies submitted is false, and every step that
\* enters the submitted view starts and ends with leadError null.
C22_CriticalErrorOnlyInForm ==
  /\ [](leadError # Null => ~submitted)
  /\ [][(~submitted /\ submitted') =>
          (leadError = Null /\ leadError' = Null)]_vars

C22_Witness ==
  /\ leadError = "rate limited"
  /\ ~submitted
  /\ isResendingEmail
  /\ Len(leads) = 1

\* C23: a submit that ends in a validation failure or in a persistence
\* failure leaves formData as the user entered it (after a failed save it
\* still holds the input that was submitted); formData changes only by an
\* edit of one field or by the end of a submit whose save succeeded, which
\* empties it.
C23_FormKeptOnFailure ==
  [][LET n == lastAction'.name IN
     /\ n = "handleSubmit:invalid" => formData' = formData
     /\ n = "saveLead:failed" =>
          /\ formData' = formData
          /\ LeadInput(formData') = lastAction'.flow.data
     /\ formData' # formData =>
          \/ \E i \in 1..Len(FieldNames) :
               /\ n = "handleInputChange:" \o FieldNames[i]
               /\ \A j \in 1..Len(FieldNames) :
                    j # i => formData'[FieldNames[j]] = formData[FieldNames[j]]
          \/ /\ n \in {"submit:emailOk", "submit:emailFailed"}
             /\ formData' = EmptyForm
             /\ Len(savedLeads) > 0
             /\ savedLeads[Len(savedLeads)] = lastAction'.flow.data]_vars

C23_Witness ==
  /\ Last("saveLead:failed")
  /\ formData = [name |-> "Bob", email |-> "ana@x.com", industry |-> "finance"]
  /\ LastFlow.data = LeadInput(formData)
  /\ Len(leads) = 1
====
